---- MODULE Spec2Model ----
(***************************************************************************)
(* A model of aori-rs: the Seaport typed-order digest (crates/types,       *)
(* seaport.rs) and the sequenced JSON-RPC session AoriProvider             *)
(* (crates/requests, aori_provider.rs).                                    *)
(*                                                                         *)
(* keccak256 and the ECDSA signature are modelled as free constructors     *)
(* (a hash is the term <<"keccak256", preimage>>, a signature the record   *)
(* of its signer and its prehash): equal inputs give equal outputs and     *)
(* distinct preimages give distinct hashes.  What is checked is therefore  *)
(* what the code feeds into the hash and which signing entry point it      *)
(* calls, not the strength of the primitives.                              *)
(***************************************************************************)
EXTENDS Integers, Sequences, FiniteSets, TLC

VARIABLES
    env,            \* the process environment: PRIVATE_KEY, WALLET_ADDRESS, NODE_URL
    pc,             \* position inside new_from_env, "ready" once Self exists, "err" when it returned Err
    result,         \* what new_from_env returned ("" while it runs)
    net,            \* network activity attempted so far, in order
    locals,         \* the local bindings of new_from_env: chain_id, wallet, sig
    request_conn,   \* text frames accepted by the request channel, in order
    feed_conn,      \* text frames accepted by the feed channel, in order
    wallet,         \* self.wallet
    chain_id,       \* self.chain_id
    last_id,        \* self.last_id
    wallet_addr,    \* self.wallet_addr
    wallet_sig,     \* self.wallet_sig
    calls,          \* history: the method calls that returned, with their result
    sent,           \* history: the frames accepted by either channel, in send order
    digest_log,     \* history: the digests make_order computed and the domain it used
    inflight,       \* per caller: the call it has begun and not finished (the future it holds)
    d_in,           \* inputs of the digest engine when it is exercised on its own
    d_out           \* its outputs

vars == <<env, pc, result, net, locals, request_conn, feed_conn, wallet, chain_id,
          last_id, wallet_addr, wallet_sig, calls, sent, digest_log, inflight, d_in, d_out>>

--------------------------------------------------------------------------
(* Bounds of the model *)

\* number of method calls made on one session
MaxCalls == 3

\* width of the u64 counter and of the u64 chain id, scaled down
IdBits == 4

\* longest offer / consideration array
MaxItems == 2

--------------------------------------------------------------------------
(* The collaborators' values *)

U64_MODULUS == 2 ^ IdBits

\* std::env::var gives Err (here <<>>) for an unset variable, Ok(v) (here <<v>>) otherwise
EnvValues(good, bad) == {<<>>, <<bad>>, <<good>>}

GoodKey == "4c0883a6"
BadKey == "not-hex"
GoodAddress == "0xA11ce"
BadAddress == "alice"
GoodNode == "wss://node"
BadNode == "not a url"

\* str::parse::<LocalWallet> accepts a hex secret key only
KeyParses(key) == key = GoodKey

\* Provider::<Ws>::connect needs a URL before it opens a socket
UrlParses(node) == node = GoodNode

\* chain ids a node may report
NetChainIds == {1, 5}

Tokens == {"tok123", "\"tok123\""}
Pairs == {<<"WETH", "USDC">>}

--------------------------------------------------------------------------
(* Typed order model: the sol! structs of seaport.rs *)

\* enum ItemType, rendered as its uint8 discriminant
ItemType == [NATIVE |-> 0, ERC20 |-> 1, ERC721 |-> 2, ERC1155 |-> 3,
             ERC721_WITH_CRITERIA |-> 4, ERC1155_WITH_CRITERIA |-> 5]

\* enum OrderType, rendered as its uint8 discriminant
OrderType == [FULL_OPEN |-> 0, PARTIAL_OPEN |-> 1, FULL_RESTRICTED |-> 2,
              PARTIAL_RESTRICTED |-> 3, CONTRACT |-> 4]

OfferItem(itemType, token, identifierOrCriteria, startAmount, endAmount) ==
    [itemType |-> itemType, token |-> token,
     identifierOrCriteria |-> identifierOrCriteria,
     startAmount |-> startAmount, endAmount |-> endAmount]

ConsiderationItem(itemType, token, identifierOrCriteria, startAmount, endAmount, recipient) ==
    [itemType |-> itemType, token |-> token,
     identifierOrCriteria |-> identifierOrCriteria,
     startAmount |-> startAmount, endAmount |-> endAmount, recipient |-> recipient]

OrderComponents(offer, consideration, salt) ==
    [offerer |-> GoodAddress, zone |-> "0xZone", offer |-> offer,
     consideration |-> consideration, orderType |-> OrderType.PARTIAL_RESTRICTED,
     startTime |-> 10, endTime |-> 20, zoneHash |-> "0xZoneHash", salt |-> salt,
     conduitKey |-> "0xConduitKey", counter |-> 0]

OfferItems ==
    {OfferItem(ItemType.ERC20, "0x2715", 0, 1000, 1000),
     OfferItem(ItemType.ERC721, "0xD366", 7, 1, 1)}

ConsiderationItems ==
    {ConsiderationItem(ItemType.ERC20, "0xD366", 0, 1500, 1500, GoodAddress),
     ConsiderationItem(ItemType.NATIVE, "0x0000", 0, 3, 2, "0xFee")}

SeqsUpTo(S, n) == UNION {[1..k -> S] : k \in 0..n}

\* the orders the digest engine is exercised on
DigestOrders ==
    {OrderComponents(o, c, 0) :
        o \in SeqsUpTo(OfferItems, MaxItems), c \in SeqsUpTo(ConsiderationItems, MaxItems)}

\* the orders a caller hands to make_order
Orders ==
    {OrderComponents(<<o>>, <<c>>, s) :
        o \in {OfferItem(ItemType.ERC20, "0x2715", 0, 1000, 1000)},
        c \in {ConsiderationItem(ItemType.ERC20, "0xD366", 0, 1500, 1500, GoodAddress)},
        s \in {0, 1}}

--------------------------------------------------------------------------
(* Domain descriptor *)

CURRENT_SEAPORT_VERSION == "CURRENT_SEAPORT_VERSION"
CURRENT_SEAPORT_ADDRESS == "CURRENT_SEAPORT_ADDRESS"

eip712_domain(name, version, chainId, verifying_contract) ==
    [name |-> name, version |-> version, chain_id |-> chainId,
     verifying_contract |-> verifying_contract]

SEAPORT_DOMAIN ==
    eip712_domain("Seaport", CURRENT_SEAPORT_VERSION, 5, CURRENT_SEAPORT_ADDRESS)

\* the domains the digest engine is exercised on
Domains ==
    {eip712_domain("Seaport", v, c, CURRENT_SEAPORT_ADDRESS) :
        v \in {CURRENT_SEAPORT_VERSION, "1.4"}, c \in NetChainIds}

--------------------------------------------------------------------------
(* Digest engine: SolStruct::eip712_signing_hash as sol! derives it *)

keccak256(preimage) == <<"keccak256", preimage>>

\* a 32-byte ABI word holding v
Word(v) == <<"word", v>>

OFFER_ITEM_TYPE ==
    "OfferItem(uint8 itemType,address token,uint256 identifierOrCriteria,uint256 startAmount,uint256 endAmount)"

CONSIDERATION_ITEM_TYPE ==
    "ConsiderationItem(uint8 itemType,address token,uint256 identifierOrCriteria,uint256 startAmount,uint256 endAmount,address recipient)"

\* the root type followed by the types it refers to, in alphabetical order
ORDER_COMPONENTS_TYPE ==
    "OrderComponents(address offerer,address zone,OfferItem[] offer,ConsiderationItem[] consideration,uint8 orderType,uint256 startTime,uint256 endTime,bytes32 zoneHash,uint256 salt,bytes32 conduitKey,uint256 counter)"
    \o CONSIDERATION_ITEM_TYPE \o OFFER_ITEM_TYPE

EIP712_DOMAIN_TYPE ==
    "EIP712Domain(string name,string version,uint256 chainId,address verifyingContract)"

OfferItem_hash_struct(i) ==
    keccak256(<<keccak256(<<OFFER_ITEM_TYPE>>), Word(i.itemType), Word(i.token),
                Word(i.identifierOrCriteria), Word(i.startAmount), Word(i.endAmount)>>)

ConsiderationItem_hash_struct(i) ==
    keccak256(<<keccak256(<<CONSIDERATION_ITEM_TYPE>>), Word(i.itemType), Word(i.token),
                Word(i.identifierOrCriteria), Word(i.startAmount), Word(i.endAmount),
                Word(i.recipient)>>)

\* the array hashed as the collection of its elements, whatever their order
OfferArray_hash_unordered(offer) ==
    keccak256({OfferItem_hash_struct(offer[k]) : k \in 1..Len(offer)})

\* an array of structs is the hash of its elements' struct hashes, in array order
OfferArray_hash(offer) ==
    keccak256([k \in 1..Len(offer) |-> OfferItem_hash_struct(offer[k])])

ConsiderationArray_hash(consideration) ==
    keccak256([k \in 1..Len(consideration) |-> ConsiderationItem_hash_struct(consideration[k])])

eip712_hash_struct(o) ==
    keccak256(<<keccak256(<<ORDER_COMPONENTS_TYPE>>), Word(o.offerer), Word(o.zone),
                OfferArray_hash(o.offer), ConsiderationArray_hash(o.consideration),
                Word(o.orderType), Word(o.startTime), Word(o.endTime), Word(o.zoneHash),
                Word(o.salt), Word(o.conduitKey), Word(o.counter)>>)

\* the separator of a domain declared without its chain id
domain_separator_no_chain(d) ==
    keccak256(<<keccak256(<<"EIP712Domain(string name,string version,address verifyingContract)">>),
                keccak256(<<d.name>>), keccak256(<<d.version>>), Word(d.verifying_contract)>>)

domain_separator(d) ==
    keccak256(<<keccak256(<<EIP712_DOMAIN_TYPE>>), keccak256(<<d.name>>),
                keccak256(<<d.version>>), Word(d.chain_id), Word(d.verifying_contract)>>)

eip712_signing_hash(o, d) ==
    keccak256(<<"0x1901", domain_separator(d), eip712_hash_struct(o)>>)

--------------------------------------------------------------------------
(* Signing capability: ethers Wallet<SigningKey> *)

LocalWallet(key, chainId) == [key |-> key, chain_id |-> chainId]

\* Wallet::sign_hash: the deterministic ECDSA signature of a 32-byte prehash
sign_hash(w, hash) == [signer |-> w.key, prehash |-> hash]

\* ethers hash_message: the EIP-191 personal-message hash
hash_message(message) ==
    keccak256(<<"0x19 Ethereum Signed Message:", Len(message), message>>)

\* Wallet::sign_message: hash under the personal-message prefix, then sign
sign_message(w, message) == sign_hash(w, hash_message(message))

\* format!("0x{}", sig)
Hex0x(sig) == <<"0x", sig>>

PlaintextMode(sig) == sig.prehash[2][1] = "0x19 Ethereum Signed Message:"
DigestMode(sig) == sig.prehash[2][1] = "0x1901"

--------------------------------------------------------------------------
(* The session: AoriProvider *)

\* the counter advanced by two
Incr_by_two(n) == (n + 2) % U64_MODULUS

\* the counter left where it was
Incr_stale(n) == n

\* self.last_id += 1 on a u64
Incr(n) == (n + 1) % U64_MODULUS

\* U256::low_u64
low_u64(c) == c % U64_MODULUS

\* the envelope with the params array wrapped in a second array
Envelope_nested_params(id, method, params) ==
    [id |-> id, jsonrpc |-> "2.0", method |-> method, params |-> <<params>>]

\* json!({"id": .., "jsonrpc": "2.0", "method": .., "params": [..]})
Envelope(id, method, params) ==
    [id |-> id, jsonrpc |-> "2.0", method |-> method, params |-> params]

\* the write tried again until the channel takes the frame
send_text_resend(conn, frame, ok) == Append(conn, frame)

\* WebSocket::send_text: the frame is accepted by the channel, or the write fails
send_text(conn, frame, ok) == IF ok THEN Append(conn, frame) ELSE conn

\* OrderComponents::to_json: field by field, integers in decimal, enums as integers
item_to_json(i) ==
    [f \in DOMAIN i |->
        IF f \in {"identifierOrCriteria", "startAmount", "endAmount"}
        THEN ToString(i[f]) ELSE i[f]]

to_json(o) ==
    [offerer |-> o.offerer, zone |-> o.zone,
     offer |-> [k \in 1..Len(o.offer) |-> item_to_json(o.offer[k])],
     consideration |-> [k \in 1..Len(o.consideration) |-> item_to_json(o.consideration[k])],
     orderType |-> o.orderType, startTime |-> ToString(o.startTime),
     endTime |-> ToString(o.endTime), zoneHash |-> o.zoneHash,
     salt |-> ToString(o.salt), conduitKey |-> o.conduitKey,
     counter |-> ToString(o.counter)]

NoWallet == LocalWallet("", 0)
NoSig == sign_hash(NoWallet, keccak256(<<>>))
NoLocals == [chain_id |-> 0, wallet |-> NoWallet, sig |-> NoSig]

\* the execution contexts that hold the session
Callers == {"a", "b"}

\* no caller has a call in progress
NoCalls == [c \in Callers |-> <<>>]

SessionVars == <<request_conn, feed_conn, wallet, chain_id, last_id, wallet_addr,
                 wallet_sig, calls, sent, digest_log, inflight>>
DigestVars == <<d_in, d_out>>

Init ==
    /\ env \in [PRIVATE_KEY : EnvValues(GoodKey, BadKey),
                WALLET_ADDRESS : EnvValues(GoodAddress, BadAddress),
                NODE_URL : EnvValues(GoodNode, BadNode)]
    /\ pc = "env"
    /\ result = ""
    /\ net = <<>>
    /\ locals = NoLocals
    /\ request_conn = <<>>
    /\ feed_conn = <<>>
    /\ wallet = NoWallet
    /\ chain_id = 0
    /\ last_id = 0
    /\ wallet_addr = ""
    /\ wallet_sig = Hex0x(NoSig)
    /\ calls = <<>>
    /\ sent = <<>>
    /\ digest_log = <<>>
    /\ inflight = NoCalls
    /\ d_in = <<>>
    /\ d_out = <<>>

\* a ? inside new_from_env: the error is returned, no Self is built
Fail(msg) ==
    /\ pc' = "err"
    /\ result' = msg
    /\ UNCHANGED <<env, locals, SessionVars, DigestVars>>

\* std::env::var(..).context(..)? three times
read_env ==
    /\ pc = "env"
    /\ UNCHANGED net
    /\ IF env.PRIVATE_KEY = <<>> THEN Fail("missing PRIVATE_KEY")
       ELSE IF env.WALLET_ADDRESS = <<>> THEN Fail("missing WALLET_ADDRESS")
       ELSE IF env.NODE_URL = <<>> THEN Fail("missing NODE_URL")
       ELSE /\ pc' = "connect_node"
            /\ UNCHANGED <<env, result, locals, SessionVars, DigestVars>>

\* Provider::<Ws>::connect(&node).await?
provider_connect ==
    /\ pc = "connect_node"
    /\ IF ~UrlParses(env.NODE_URL[1])
       THEN UNCHANGED net /\ Fail("invalid NODE_URL")
       ELSE /\ net' = Append(net, "node_connect")
            /\ \/ Fail("node unreachable")
               \/ /\ pc' = "get_chainid"
                  /\ UNCHANGED <<env, result, locals, SessionVars, DigestVars>>

\* pv.get_chainid().await?.low_u64()
get_chainid ==
    /\ pc = "get_chainid"
    /\ net' = Append(net, "get_chainid")
    /\ \/ Fail("get_chainid failed")
       \/ \E c \in NetChainIds :
            /\ locals' = [locals EXCEPT !.chain_id = low_u64(c)]
            /\ pc' = "parse_key"
            /\ UNCHANGED <<env, result, SessionVars, DigestVars>>

\* the key taken as it is, whether or not it parses
parse_wallet_lenient ==
    /\ pc = "parse_key"
    /\ UNCHANGED net
    /\ locals' = [locals EXCEPT !.wallet = LocalWallet(env.PRIVATE_KEY[1], locals.chain_id)]
    /\ pc' = "sign_address"
    /\ UNCHANGED <<env, result, SessionVars, DigestVars>>

\* key.parse::<LocalWallet>()?.with_chain_id(chain_id)
parse_wallet ==
    /\ pc = "parse_key"
    /\ UNCHANGED net
    /\ IF ~KeyParses(env.PRIVATE_KEY[1])
       THEN Fail("invalid PRIVATE_KEY")
       ELSE /\ locals' = [locals EXCEPT !.wallet = LocalWallet(env.PRIVATE_KEY[1], locals.chain_id)]
            /\ pc' = "sign_address"
            /\ UNCHANGED <<env, result, SessionVars, DigestVars>>

\* wallet.sign_message(address.as_str()).await?
sign_address ==
    /\ pc = "sign_address"
    /\ UNCHANGED net
    /\ \/ Fail("sign_message failed")
       \/ /\ locals' = [locals EXCEPT !.sig = sign_message(locals.wallet, env.WALLET_ADDRESS[1])]
          /\ pc' = "connect_request"
          /\ UNCHANGED <<env, result, SessionVars, DigestVars>>

\* WebSocket::connect(REQUEST_URL).await?
connect_request ==
    /\ pc = "connect_request"
    /\ net' = Append(net, "request_connect")
    /\ \/ Fail("request channel unreachable")
       \/ /\ pc' = "connect_feed"
          /\ UNCHANGED <<env, result, locals, SessionVars, DigestVars>>

\* WebSocket::connect(MARKET_FEED_URL).await? and Ok(Self { .. })
connect_feed ==
    /\ pc = "connect_feed"
    /\ net' = Append(net, "feed_connect")
    /\ \/ Fail("feed channel unreachable")
       \/ /\ pc' = "ready"
          /\ result' = "Ok"
          /\ request_conn' = <<>>
          /\ feed_conn' = <<>>
          /\ wallet' = locals.wallet
          /\ chain_id' = locals.chain_id
          /\ last_id' = 0
          /\ wallet_addr' = env.WALLET_ADDRESS[1]
          /\ wallet_sig' = Hex0x(locals.sig)
          /\ UNCHANGED <<env, locals, calls, sent, digest_log, inflight, DigestVars>>

new_from_env ==
    \/ read_env
    \/ provider_connect
    \/ get_chainid
    \/ parse_wallet
    \/ sign_address
    \/ connect_request
    \/ connect_feed

\* a call may start: the session exists and the call budget is not used up
CanCall == pc = "ready" /\ Len(calls) < MaxCalls

\* the history kept of one call: its outcome, and its frame if a channel took it
Returned(op, chan, frame, outcome) ==
    /\ calls' = Append(calls, [op |-> op, outcome |-> outcome, id |-> frame.id])
    /\ sent' = IF outcome = "Ok"
               THEN Append(sent, [op |-> op, chan |-> chan, frame |-> frame,
                                  call |-> Len(calls) + 1])
               ELSE sent

Frame == <<env, pc, result, net, locals, wallet, chain_id, wallet_addr, wallet_sig,
          inflight, DigestVars>>

\* the counter advanced only once the frame is sent
ping_counts_on_success ==
    /\ CanCall
    /\ \E ok \in BOOLEAN :
        LET frame == Envelope(Incr(last_id), "aori_ping", <<>>) IN
        /\ last_id' = IF ok THEN Incr(last_id) ELSE last_id
        /\ request_conn' = send_text(request_conn, frame, ok)
        /\ Returned("ping", "request", frame, IF ok THEN "Ok" ELSE "SendError")
    /\ UNCHANGED <<Frame, feed_conn, digest_log>>

ping ==
    /\ CanCall
    /\ last_id' = Incr(last_id)
    /\ \E ok \in BOOLEAN :
        LET frame == Envelope(last_id', "aori_ping", <<>>) IN
        /\ request_conn' = send_text(request_conn, frame, ok)
        /\ Returned("ping", "request", frame, IF ok THEN "Ok" ELSE "SendError")
    /\ UNCHANGED <<Frame, feed_conn, digest_log>>

auth_wallet ==
    /\ CanCall
    /\ last_id' = Incr(last_id)
    /\ \E ok \in BOOLEAN :
        LET frame == Envelope(last_id', "aori_authWallet",
                              <<[address |-> wallet_addr, signature |-> wallet_sig]>>) IN
        /\ request_conn' = send_text(request_conn, frame, ok)
        /\ Returned("auth_wallet", "request", frame, IF ok THEN "Ok" ELSE "SendError")
    /\ UNCHANGED <<Frame, feed_conn, digest_log>>

\* the token sent without the quote characters around it
check_auth_unquoted(jwt) ==
    /\ CanCall
    /\ last_id' = Incr(last_id)
    /\ \E ok \in BOOLEAN :
        LET frame == Envelope(last_id', "aori_checkAuth",
                              <<[auth |-> IF jwt = "\"tok123\"" THEN "tok123" ELSE jwt]>>) IN
        /\ request_conn' = send_text(request_conn, frame, ok)
        /\ Returned("check_auth", "request", frame, IF ok THEN "Ok" ELSE "SendError")
    /\ UNCHANGED <<Frame, feed_conn, digest_log>>

check_auth(jwt) ==
    /\ CanCall
    /\ last_id' = Incr(last_id)
    /\ \E ok \in BOOLEAN :
        LET frame == Envelope(last_id', "aori_checkAuth", <<[auth |-> jwt]>>) IN
        /\ request_conn' = send_text(request_conn, frame, ok)
        /\ Returned("check_auth", "request", frame, IF ok THEN "Ok" ELSE "SendError")
    /\ UNCHANGED <<Frame, feed_conn, digest_log>>

\* the chain id taken from the signing domain instead of the session
view_orderbook_domain_chain(base, quote) ==
    /\ CanCall
    /\ last_id' = Incr(last_id)
    /\ \E ok \in BOOLEAN :
        LET frame == Envelope(last_id', "aori_viewOrderbook",
                              <<[chainId |-> SEAPORT_DOMAIN.chain_id,
                                 query |-> [base |-> base, quote |-> quote]]>>) IN
        /\ request_conn' = send_text(request_conn, frame, ok)
        /\ Returned("view_orderbook", "request", frame, IF ok THEN "Ok" ELSE "SendError")
    /\ UNCHANGED <<Frame, feed_conn, digest_log>>

view_orderbook(base, quote) ==
    /\ CanCall
    /\ last_id' = Incr(last_id)
    /\ \E ok \in BOOLEAN :
        LET frame == Envelope(last_id', "aori_viewOrderbook",
                              <<[chainId |-> chain_id,
                                 query |-> [base |-> base, quote |-> quote]]>>) IN
        /\ request_conn' = send_text(request_conn, frame, ok)
        /\ Returned("view_orderbook", "request", frame, IF ok THEN "Ok" ELSE "SendError")
    /\ UNCHANGED <<Frame, feed_conn, digest_log>>

\* the order digest signed as a personal message
order_signature_plaintext(order_params) ==
    sign_message(wallet, eip712_signing_hash(order_params, SEAPORT_DOMAIN))

\* the signature make_order puts on the order
order_signature(order_params) ==
    sign_hash(wallet, eip712_signing_hash(order_params, SEAPORT_DOMAIN))

\* the order accepted only once a checkAuth envelope went out
make_order_after_auth(order_params) ==
    /\ CanCall
    /\ \E k \in 1..Len(request_conn) : request_conn[k].method = "aori_checkAuth"
    /\ last_id' = Incr(last_id)
    /\ digest_log' = Append(digest_log, [id |-> last_id', order |-> order_params,
                                         domain |-> SEAPORT_DOMAIN,
                                         digest |-> eip712_signing_hash(order_params, SEAPORT_DOMAIN)])
    /\ \E outcome \in {"Ok", "SendError", "SigningError"} :
        LET frame == Envelope(last_id', "aori_makeOrder",
                              <<[order |-> [signature |-> Hex0x(order_signature(order_params)),
                                            parameters |-> to_json(order_params)],
                                 isPublic |-> TRUE,
                                 chainId |-> chain_id]>>) IN
        /\ request_conn' = send_text(request_conn, frame, outcome = "Ok")
        /\ Returned("make_order", "request", frame, outcome)
    /\ UNCHANGED <<Frame, feed_conn>>

make_order(order_params) ==
    /\ CanCall
    /\ last_id' = Incr(last_id)
    /\ digest_log' = Append(digest_log, [id |-> last_id', order |-> order_params,
                                         domain |-> SEAPORT_DOMAIN,
                                         digest |-> eip712_signing_hash(order_params, SEAPORT_DOMAIN)])
    /\ \E outcome \in {"Ok", "SendError", "SigningError"} :
        LET frame == Envelope(last_id', "aori_makeOrder",
                              <<[order |-> [signature |-> Hex0x(order_signature(order_params)),
                                            parameters |-> to_json(order_params)],
                                 isPublic |-> TRUE,
                                 chainId |-> chain_id]>>) IN
        /\ request_conn' = send_text(request_conn, frame, outcome = "Ok")
        /\ Returned("make_order", "request", frame, outcome)
    /\ UNCHANGED <<Frame, feed_conn>>

\* the subscription sent on the request channel
subscribe_orderbook_on_request ==
    /\ CanCall
    /\ last_id' = Incr(last_id)
    /\ \E ok \in BOOLEAN :
        LET frame == Envelope(last_id', "aori_subscribeOrderbook", <<>>) IN
        /\ request_conn' = send_text(request_conn, frame, ok)
        /\ Returned("subscribe_orderbook", "feed", frame, IF ok THEN "Ok" ELSE "SendError")
    /\ UNCHANGED <<Frame, feed_conn, digest_log>>

subscribe_orderbook ==
    /\ CanCall
    /\ last_id' = Incr(last_id)
    /\ \E ok \in BOOLEAN :
        LET frame == Envelope(last_id', "aori_subscribeOrderbook", <<>>) IN
        /\ feed_conn' = send_text(feed_conn, frame, ok)
        /\ Returned("subscribe_orderbook", "feed", frame, IF ok THEN "Ok" ELSE "SendError")
    /\ UNCHANGED <<Frame, request_conn, digest_log>>

Next ==
    \/ new_from_env
    \/ ping
    \/ auth_wallet
    \/ \E jwt \in Tokens : check_auth(jwt)
    \/ \E p \in Pairs : view_orderbook(p[1], p[2])
    \/ \E o \in Orders : make_order(o)
    \/ subscribe_orderbook

Spec == Init /\ [][Next]_vars

--------------------------------------------------------------------------
(* The digest engine exercised on its own *)

IsReordering(s, t) ==
    /\ Len(s) = Len(t)
    /\ \E p \in Permutations(1..Len(s)) : t = [k \in 1..Len(s) |-> s[p[k]]]

\* o2 is o1 with its offer and its consideration in some order
SameUpToOrder(o1, o2) ==
    /\ IsReordering(o1.offer, o2.offer)
    /\ IsReordering(o1.consideration, o2.consideration)
    /\ o2 = [o1 EXCEPT !.offer = o2.offer, !.consideration = o2.consideration]

InitDigest ==
    /\ env = [PRIVATE_KEY |-> <<GoodKey>>, WALLET_ADDRESS |-> <<GoodAddress>>,
              NODE_URL |-> <<GoodNode>>]
    /\ pc = "digest"
    /\ result = ""
    /\ net = <<>>
    /\ locals = NoLocals
    /\ request_conn = <<>>
    /\ feed_conn = <<>>
    /\ wallet = NoWallet
    /\ chain_id = 0
    /\ last_id = 0
    /\ wallet_addr = ""
    /\ wallet_sig = Hex0x(NoSig)
    /\ calls = <<>>
    /\ sent = <<>>
    /\ digest_log = <<>>
    /\ inflight = NoCalls
    /\ \E a \in DigestOrders :
         \E b \in {o \in DigestOrders : SameUpToOrder(a, o)} :
           \E x \in Domains, y \in Domains :
             d_in = [o1 |-> a, o2 |-> b, dom1 |-> x, dom2 |-> y]
    /\ d_out = <<>>

\* order.eip712_signing_hash(&domain) on each input
hash_orders ==
    /\ pc = "digest"
    /\ pc' = "digested"
    /\ d_out' = [h11 |-> eip712_signing_hash(d_in.o1, d_in.dom1),
                 h12 |-> eip712_signing_hash(d_in.o1, d_in.dom2),
                 h21 |-> eip712_signing_hash(d_in.o2, d_in.dom1)]
    /\ UNCHANGED <<env, result, net, locals, SessionVars, d_in>>

NextDigest == hash_orders

SpecDigest == InitDigest /\ [][NextDigest]_vars

--------------------------------------------------------------------------
(* Properties *)

Ids(log) == [k \in 1..Len(log) |-> log[k].frame.id]

OnChannel(conn, id) == \E k \in 1..Len(conn) : conn[k].id = id

MethodOf(op) ==
    CASE op = "ping" -> "aori_ping"
      [] op = "auth_wallet" -> "aori_authWallet"
      [] op = "check_auth" -> "aori_checkAuth"
      [] op = "view_orderbook" -> "aori_viewOrderbook"
      [] op = "make_order" -> "aori_makeOrder"
      [] op = "subscribe_orderbook" -> "aori_subscribeOrderbook"

ParamsOf(op) == IF op \in {"ping", "subscribe_orderbook"} THEN 0 ELSE 1

\* C1 as stated: after N calls the emitted envelopes carry exactly the ids 1..N.
C1_IdsAreOneToN == Ids(sent) = [i \in 1..Len(calls) |-> i]

\* C1, amended: the emitted envelopes carry, in order, the ids 1..N less the ids of
\* the calls that returned an error; when all N calls return Ok these are exactly 1..N.
C1_IdsAreOneToNLessFailed ==
    /\ Ids(sent) = SelectSeq([i \in 1..Len(calls) |-> i],
                             LAMBDA i : calls[i].outcome = "Ok")
    /\ (\A i \in 1..Len(calls) : calls[i].outcome = "Ok")
          => Ids(sent) = [i \in 1..Len(calls) |-> i]

C1_Witness ==
    /\ Len(calls) >= 3
    /\ \A i \in 1..Len(calls) : calls[i].outcome = "Ok"
    /\ Len(request_conn) > 0
    /\ Len(feed_conn) > 0

\* C2: no two emitted envelopes carry the same id, every emitted id is greater than
\* all ids emitted before it (also after failed calls), and last_id never decreases.
C2_IdsStrictlyIncrease ==
    /\ [](\A i, j \in 1..Len(sent) : i < j => sent[i].frame.id < sent[j].frame.id)
    /\ [][last_id' >= last_id]_vars

C2_Witness ==
    /\ Len(sent) >= 2
    /\ \E i \in 1..Len(calls) : calls[i].outcome # "Ok" /\ i < sent[Len(sent)].call

\* C3: subscribe_orderbook's envelope is on the feed channel and not on the request
\* channel; every other method's envelope is on the request channel and not on the
\* feed channel; the channels hold nothing else.
C3_ChannelRouting ==
    /\ Len(request_conn) + Len(feed_conn) = Len(sent)
    /\ \A k \in 1..Len(feed_conn) : feed_conn[k].method = "aori_subscribeOrderbook"
    /\ \A k \in 1..Len(request_conn) : request_conn[k].method # "aori_subscribeOrderbook"
    /\ \A k \in 1..Len(sent) :
          IF sent[k].op = "subscribe_orderbook"
          THEN /\ OnChannel(feed_conn, sent[k].frame.id)
               /\ ~OnChannel(request_conn, sent[k].frame.id)
          ELSE /\ OnChannel(request_conn, sent[k].frame.id)
               /\ ~OnChannel(feed_conn, sent[k].frame.id)

C3_Witness ==
    /\ Len(feed_conn) > 0
    /\ Len(request_conn) >= 2

WellFormedFrame(f) ==
    /\ DOMAIN f = {"id", "jsonrpc", "method", "params"}
    /\ f.jsonrpc = "2.0"
    /\ \E op \in {"ping", "auth_wallet", "check_auth", "view_orderbook", "make_order",
                  "subscribe_orderbook"} :
          f.method = MethodOf(op) /\ Len(f.params) = ParamsOf(op)

\* C4: every emitted envelope has exactly the keys id, jsonrpc, method, params, with
\* jsonrpc "2.0", the method name of the operation called, params of length 0 (ping,
\* subscribe_orderbook) or 1 (the others), and id the value of last_id right after
\* the call's increment.
C4_WireFormat ==
    /\ [](/\ \A k \in 1..Len(request_conn) : WellFormedFrame(request_conn[k])
          /\ \A k \in 1..Len(feed_conn) : WellFormedFrame(feed_conn[k])
          /\ \A k \in 1..Len(sent) :
                /\ sent[k].frame.method = MethodOf(sent[k].op)
                /\ Len(sent[k].frame.params) = ParamsOf(sent[k].op))
    /\ [][/\ Len(request_conn') > Len(request_conn)
             => request_conn'[Len(request_conn')].id = last_id' /\ last_id' # last_id
          /\ Len(feed_conn') > Len(feed_conn)
             => feed_conn'[Len(feed_conn')].id = last_id' /\ last_id' # last_id]_vars

C4_Witness ==
    /\ \E k \in 1..Len(sent) : sent[k].op = "make_order"
    /\ \E k \in 1..Len(sent) : sent[k].op = "subscribe_orderbook"
    /\ \E k \in 1..Len(sent) : sent[k].op = "auth_wallet"

\* C5: the domain under which make_order computes the digest has the chain id the
\* session resolved from the network.
C5_DomainChainIsSessionChain ==
    \A k \in 1..Len(digest_log) : digest_log[k].domain.chain_id = chain_id

\* C6: one order under two domains whose chain ids differ has two different digests.
C6_DomainSeparation ==
    (pc = "digested" /\ d_in.dom1.chain_id # d_in.dom2.chain_id)
        => d_out.h11 # d_out.h12

C6_Witness ==
    /\ pc = "digested"
    /\ d_in.dom1.chain_id # d_in.dom2.chain_id
    /\ d_in.dom1.version = d_in.dom2.version
    /\ Len(d_in.o1.offer) > 0

\* C8: two orders that differ only in the order of the elements of offer or of
\* consideration have different digests under one domain.
C8_ElementOrderSensitive ==
    (pc = "digested" /\ d_in.o1 # d_in.o2) => d_out.h11 # d_out.h21

C8_Witness ==
    /\ pc = "digested"
    /\ d_in.o1.offer # d_in.o2.offer
    /\ d_in.o1.consideration = d_in.o2.consideration

LoggedOrder(id) == (CHOOSE k \in 1..Len(digest_log) : digest_log[k].id = id)

\* C9: every auth_wallet envelope carries the personal-message signature over the
\* wallet address string, every make_order envelope carries the signature made by
\* sign_hash over the order's digest, and neither carries a signature of the other mode.
C9_SigningModes ==
    \A k \in 1..Len(request_conn) :
        LET f == request_conn[k] IN
        /\ f.method = "aori_authWallet" =>
              /\ f.params[1].signature = Hex0x(sign_message(wallet, wallet_addr))
              /\ f.params[1].address = wallet_addr
              /\ PlaintextMode(f.params[1].signature[2])
              /\ ~DigestMode(f.params[1].signature[2])
        /\ f.method = "aori_makeOrder" =>
              /\ \E j \in 1..Len(digest_log) : digest_log[j].id = f.id
              /\ f.params[1].order.signature =
                    Hex0x(sign_hash(wallet, eip712_signing_hash(
                        digest_log[LoggedOrder(f.id)].order, SEAPORT_DOMAIN)))
              /\ DigestMode(f.params[1].order.signature[2])
              /\ ~PlaintextMode(f.params[1].order.signature[2])

C9_Witness ==
    /\ \E k \in 1..Len(request_conn) : request_conn[k].method = "aori_authWallet"
    /\ \E k \in 1..Len(request_conn) : request_conn[k].method = "aori_makeOrder"

ConfigMissing ==
    env.PRIVATE_KEY = <<>> \/ env.WALLET_ADDRESS = <<>> \/ env.NODE_URL = <<>>

ConfigMalformed ==
    \/ env.PRIVATE_KEY = <<BadKey>>
    \/ env.WALLET_ADDRESS = <<BadAddress>>
    \/ env.NODE_URL = <<BadNode>>

\* C10: with a private key, wallet address or node endpoint missing or malformed,
\* construction fails and nothing is attempted on the network.
C10_BadConfigFailsBeforeNetwork ==
    (ConfigMissing \/ ConfigMalformed) => (net = <<>> /\ pc # "ready")

\* C11: a session exists only if the three configuration values were present, the
\* node was connected and asked for its chain id, the key parsed, the address was
\* signed and both channels were connected, and it starts with last_id = 0; a
\* construction that returned an error stays failed, and without a session no call
\* is made and no envelope is emitted.
C11_ConstructionAllOrNothing ==
    /\ [](pc = "ready" =>
            /\ ~ConfigMissing
            /\ UrlParses(env.NODE_URL[1])
            /\ KeyParses(env.PRIVATE_KEY[1])
            /\ net = <<"node_connect", "get_chainid", "request_connect", "feed_connect">>
            /\ chain_id \in {low_u64(c) : c \in NetChainIds}
            /\ wallet = LocalWallet(env.PRIVATE_KEY[1], chain_id)
            /\ wallet_sig = Hex0x(sign_message(wallet, env.WALLET_ADDRESS[1]))
            /\ result = "Ok"
            /\ (calls = <<>> => last_id = 0))
    /\ [](pc # "ready" =>
            /\ calls = <<>> /\ sent = <<>> /\ last_id = 0
            /\ request_conn = <<>> /\ feed_conn = <<>>)
    /\ [](result \notin {"", "Ok"} <=> pc = "err")
    /\ [][pc = "err" => pc' = "err"]_vars

C11_Witness ==
    /\ pc = "ready"
    /\ Len(sent) > 0
    /\ env.WALLET_ADDRESS = <<BadAddress>>

\* C12: a call puts at most one frame on exactly one channel; it returns Ok exactly
\* when the channel took the frame; a call that returned an error (failed send, or
\* failed signing in make_order) left no frame, and its frame never appears later.
C12_SingleAttempt ==
    /\ [][Len(calls') = Len(calls) + 1 =>
            LET onRequest == Len(request_conn') - Len(request_conn)
                onFeed == Len(feed_conn') - Len(feed_conn)
                call == calls'[Len(calls')]
            IN  /\ onRequest \in {0, 1} /\ onFeed \in {0, 1}
                /\ onRequest + onFeed <= 1
                /\ (call.outcome = "Ok") <=> (onRequest + onFeed = 1)
                /\ call.outcome \in {"Ok", "SendError", "SigningError"}
                /\ call.outcome = "SigningError" => call.op = "make_order"
                /\ SubSeq(request_conn', 1, Len(request_conn)) = request_conn
                /\ SubSeq(feed_conn', 1, Len(feed_conn)) = feed_conn]_vars
    /\ [](\A i \in 1..Len(calls) :
            calls[i].outcome # "Ok" =>
                /\ ~OnChannel(request_conn, calls[i].id)
                /\ ~OnChannel(feed_conn, calls[i].id))

C12_Witness ==
    /\ \E i \in 1..Len(calls) : calls[i].outcome = "SigningError"
    /\ \E i \in 1..Len(calls) : calls[i].outcome = "SendError" /\ i < Len(calls)
    /\ calls[Len(calls)].outcome = "Ok"

\* C13: check_auth(t) puts on the request channel an aori_checkAuth envelope whose
\* single params object is {auth: t} with t exactly as given; after ping, auth_wallet,
\* check_auth on a fresh session the envelopes have ids 1, 2, 3 and the three methods.
C13_CheckAuthSendsTokenAsGiven ==
    /\ [][\A t \in Tokens :
            (check_auth(t) /\ Len(request_conn') > Len(request_conn)) =>
                /\ request_conn'[Len(request_conn')].method = "aori_checkAuth"
                /\ request_conn'[Len(request_conn')].params = <<[auth |-> t]>>
                /\ feed_conn' = feed_conn]_vars
    /\ []((/\ Len(calls) = 3
           /\ calls[1].op = "ping" /\ calls[2].op = "auth_wallet" /\ calls[3].op = "check_auth"
           /\ \A i \in 1..3 : calls[i].outcome = "Ok")
          => /\ Len(request_conn) = 3
             /\ [k \in 1..3 |-> request_conn[k].id] = <<1, 2, 3>>
             /\ [k \in 1..3 |-> request_conn[k].method]
                    = <<"aori_ping", "aori_authWallet", "aori_checkAuth">>)

C13_Witness ==
    /\ Len(calls) = 3
    /\ calls[1].op = "ping" /\ calls[2].op = "auth_wallet" /\ calls[3].op = "check_auth"
    /\ \A i \in 1..3 : calls[i].outcome = "Ok"
    /\ request_conn[3].params[1].auth = "\"tok123\""

\* C14: make_order has no precondition on earlier calls: whenever a call can be made
\* on the session, make_order can be made, also when nothing was sent before.
C14_MakeOrderNeedsNoAuth ==
    CanCall => ENABLED (\E o \in Orders : make_order(o))

C14_Witness ==
    /\ Len(calls) = 1
    /\ Len(request_conn) = 1
    /\ request_conn[1].method = "aori_makeOrder"
    /\ request_conn[1].id = 1

\* C17: a call that returns an error has advanced last_id by one all the same, no
\* envelope carrying that id is ever emitted, and the successful call right after
\* one failed call emits an id two greater than the last emitted id.
C17_FailedCallConsumesId ==
    /\ [][(Len(calls') = Len(calls) + 1 /\ calls'[Len(calls')].outcome # "Ok") =>
            /\ last_id' = last_id + 1
            /\ calls'[Len(calls')].id = last_id'
            /\ sent' = sent]_vars
    /\ [](\A i \in 1..Len(calls) : \A k \in 1..Len(sent) :
            calls[i].outcome # "Ok" => sent[k].frame.id # calls[i].id)
    /\ [](\A k \in 1..(Len(sent) - 1) :
            sent[k + 1].call = sent[k].call + 2 =>
                /\ calls[sent[k].call + 1].outcome # "Ok"
                /\ sent[k + 1].frame.id = sent[k].frame.id + 2)

C17_Witness ==
    \E k \in 1..(Len(sent) - 1) :
        /\ sent[k + 1].call = sent[k].call + 2
        /\ calls[sent[k].call + 1].outcome = "SigningError"

\* C18: every call changes last_id by exactly +1 and leaves chain_id, the wallet,
\* wallet_addr and wallet_sig as construction set them; every auth_wallet envelope
\* carries that address and signature, and every chainId of a view_orderbook or
\* make_order envelope is the chain id resolved at construction.
C18_MethodsFrame ==
    /\ [][Len(calls') = Len(calls) + 1 =>
            /\ last_id' = last_id + 1
            /\ UNCHANGED <<chain_id, wallet, wallet_addr, wallet_sig>>]_vars
    /\ [](pc = "ready" =>
            /\ chain_id = locals.chain_id
            /\ wallet = locals.wallet
            /\ wallet_addr = env.WALLET_ADDRESS[1]
            /\ wallet_sig = Hex0x(locals.sig)
            /\ \A k \in 1..Len(request_conn) :
                 LET f == request_conn[k] IN
                 /\ f.method = "aori_authWallet" =>
                       /\ f.params[1].address = env.WALLET_ADDRESS[1]
                       /\ f.params[1].signature = Hex0x(locals.sig)
                 /\ f.method \in {"aori_viewOrderbook", "aori_makeOrder"} =>
                       f.params[1].chainId = locals.chain_id)

C18_Witness ==
    /\ Len(request_conn) = 3
    /\ request_conn[1].method = "aori_authWallet"
    /\ request_conn[2].method = "aori_viewOrderbook"
    /\ request_conn[3].method = "aori_authWallet"
    /\ chain_id = 1

--------------------------------------------------------------------------
(* The counter at the end of its range: one session, called until last_id has *)
(* been through every value of its width                                      *)

InitWrap ==
    /\ Init
    /\ env = [PRIVATE_KEY |-> <<GoodKey>>, WALLET_ADDRESS |-> <<GoodAddress>>,
              NODE_URL |-> <<GoodNode>>]

\* ping, called as often as it takes to pass the largest value of the counter;
\* self.last_id += 1 without overflow checks (the release profile) wraps to 0
ping_long ==
    /\ pc = "ready"
    /\ Len(calls) <= U64_MODULUS
    /\ last_id' = Incr(last_id)
    /\ \E ok \in BOOLEAN :
        LET frame == Envelope(last_id', "aori_ping", <<>>) IN
        /\ request_conn' = send_text(request_conn, frame, ok)
        /\ Returned("ping", "request", frame, IF ok THEN "Ok" ELSE "SendError")
    /\ UNCHANGED <<Frame, feed_conn, digest_log>>

\* self.last_id += 1 with overflow checks (the debug profile): at the largest value
\* the addition panics, nothing is assigned or sent, and the caller unwinds
ping_overflow_panic ==
    /\ pc = "ready"
    /\ last_id = U64_MODULUS - 1
    /\ pc' = "panicked"
    /\ calls' = Append(calls, [op |-> "ping", outcome |-> "panic", id |-> last_id])
    /\ UNCHANGED <<env, result, net, locals, request_conn, feed_conn, wallet, chain_id,
                   last_id, wallet_addr, wallet_sig, sent, digest_log, inflight, DigestVars>>

NextWrap ==
    \/ new_from_env
    \/ ping_long
    \/ ping_overflow_panic

SpecWrap == InitWrap /\ [][NextWrap]_vars

\* C16: last_id starts at 0, never decreases and never takes a value it held before,
\* also when a call is made with last_id at the largest value of its width: the
\* increment does not wrap to 0 and no id is used twice.
C16_CounterNeverWraps ==
    /\ pc = "env" => last_id = 0
    /\ \A i, j \in 1..Len(calls) :
          (i < j /\ calls[i].outcome # "panic" /\ calls[j].outcome # "panic")
              => calls[i].id < calls[j].id
    /\ \A i, j \in 1..Len(sent) : i < j => sent[i].frame.id # sent[j].frame.id
    /\ Len(calls) > 0 => last_id > 0

--------------------------------------------------------------------------
(* Two callers on one session: each method runs from its first poll (increment, *)
(* build the envelope, start the send) to the completion of the send, and holds *)
(* the session's &mut borrow from the one to the other                          *)

\* the session borrowed by every caller at once
Exclusive_shared(c) == inflight[c] = <<>>

\* pub async fn ..(&mut self): the call's future borrows the session exclusively,
\* so a caller can begin a call only while no call is in progress
Exclusive(c) == \A d \in Callers : inflight[d] = <<>>

InProgress == Cardinality({c \in Callers : inflight[c] # <<>>})

CanBegin(c) ==
    /\ pc = "ready"
    /\ Len(calls) + InProgress < MaxCalls
    /\ Exclusive(c)

\* what a finished call leaves in the history
Finished(c, ok) ==
    /\ calls' = Append(calls, [op |-> inflight[c][1].op,
                               outcome |-> IF ok THEN "Ok" ELSE "SendError",
                               id |-> inflight[c][1].frame.id, caller |-> c])
    /\ sent' = IF ok
               THEN Append(sent, [op |-> inflight[c][1].op, chan |-> inflight[c][1].chan,
                                  frame |-> inflight[c][1].frame, call |-> Len(calls) + 1,
                                  caller |-> c])
               ELSE sent
    /\ inflight' = [inflight EXCEPT ![c] = <<>>]

ConcFrame == <<env, pc, result, net, locals, wallet, chain_id, wallet_addr, wallet_sig,
              digest_log, DigestVars>>

\* ping up to the await of send_text
ping_start(c) ==
    /\ CanBegin(c)
    /\ last_id' = Incr(last_id)
    /\ inflight' = [inflight EXCEPT ![c] =
                      <<[op |-> "ping", chan |-> "request",
                         frame |-> Envelope(last_id', "aori_ping", <<>>)]>>]
    /\ UNCHANGED <<ConcFrame, request_conn, feed_conn, calls, sent>>

\* ping from the completion of send_text to its return
ping_send(c) ==
    /\ inflight[c] # <<>>
    /\ inflight[c][1].op = "ping"
    /\ \E ok \in BOOLEAN :
        /\ request_conn' = send_text(request_conn, inflight[c][1].frame, ok)
        /\ Finished(c, ok)
    /\ UNCHANGED <<ConcFrame, feed_conn, last_id>>

\* subscribe_orderbook up to the await of send_text
subscribe_orderbook_start(c) ==
    /\ CanBegin(c)
    /\ last_id' = Incr(last_id)
    /\ inflight' = [inflight EXCEPT ![c] =
                      <<[op |-> "subscribe_orderbook", chan |-> "feed",
                         frame |-> Envelope(last_id', "aori_subscribeOrderbook", <<>>)]>>]
    /\ UNCHANGED <<ConcFrame, request_conn, feed_conn, calls, sent>>

\* subscribe_orderbook from the completion of send_text to its return
subscribe_orderbook_send(c) ==
    /\ inflight[c] # <<>>
    /\ inflight[c][1].op = "subscribe_orderbook"
    /\ \E ok \in BOOLEAN :
        /\ feed_conn' = send_text(feed_conn, inflight[c][1].frame, ok)
        /\ Finished(c, ok)
    /\ UNCHANGED <<ConcFrame, request_conn, last_id>>

NextConc ==
    \/ new_from_env
    \/ \E c \in Callers : ping_start(c)
    \/ \E c \in Callers : ping_send(c)
    \/ \E c \in Callers : subscribe_orderbook_start(c)
    \/ \E c \in Callers : subscribe_orderbook_send(c)

SpecConc == Init /\ [][NextConc]_vars

\* a channel holds a frame with a larger id ahead of a frame with a smaller id
Reversed(conn) == \E i, j \in 1..Len(conn) : i < j /\ conn[i].id > conn[j].id

\* C15 as stated: the increment and the send are not one unit with respect to the
\* other caller: while one caller is between its increment and its send, the other
\* caller can begin a call of its own (and so overtake it).
C15_OtherCallerCanInterleave ==
    \A c \in Callers :
        (inflight[c] # <<>> /\ Len(calls) + InProgress < MaxCalls)
            => \E d \in Callers \ {c} : ENABLED ping_start(d)

\* C15, amended: the methods take &mut self, so two calls on one session never
\* overlap, whichever caller makes them: at most one call is in progress, and on
\* each channel, and over both, the envelopes are sent in increasing id order.
C15_CallsNeverOverlap ==
    /\ InProgress <= 1
    /\ ~Reversed(request_conn)
    /\ ~Reversed(feed_conn)
    /\ \A i, j \in 1..Len(sent) : i < j => sent[i].frame.id < sent[j].frame.id

C15_Witness ==
    /\ Len(request_conn) >= 2
    /\ \E i, j \in 1..Len(sent) :
          /\ i < j
          /\ sent[i].caller = "b" /\ sent[j].caller = "a"
          /\ sent[i].chan = "request" /\ sent[j].chan = "request"
    /\ inflight["b"] # <<>>

====
